---- MODULE Spec2Model ----
(***************************************************************************)
(* CandleSage: the daily bhavcopy pipeline of src/Backup/temp.py.          *)
(*                                                                         *)
(* A program run (process_date_range) walks a range of calendar days; for  *)
(* each non-weekend day it downloads the day's file, encodes the candle    *)
(* patterns of every row, bulk-inserts the rows with a pattern into        *)
(* common_stock_data and inserts the first row of every symbol into        *)
(* stock_<symbol>.  The store (PostgreSQL) outlives the program runs; the  *)
(* StockDatabaseManager fields (existing_tables_cache, metadata,           *)
(* inspector) do not.                                                      *)
(*                                                                         *)
(* The source imports sqlalchemy without naming a release.  Two release    *)
(* lines run this code and differ in what it does: on 1.4 the Inspector    *)
(* asks the store on every has_table call and a CREATE INDEX sent on       *)
(* engine.connect() is committed at once; on 2.0 the Inspector keeps the   *)
(* answer of has_table in its info_cache, and a connection closed without  *)
(* commit rolls its statements back.  The release is drawn at the start    *)
(* and stays.                                                              *)
(*                                                                         *)
(* Store operations can fail (connectivity loss, lock timeout): every      *)
(* write call chooses which of its store operations, if any, raises.       *)
(*                                                                         *)
(* The PatternEngine of src/stock_api/pattern_engine.py (detect_patterns,  *)
(* save_patterns_to_db) is modelled on the same variables, in SpecEngine.  *)
(***************************************************************************)
EXTENDS Integers, Sequences, FiniteSets, TLC

VARIABLES
    tables,     \* store: names of the tables that exist
    indexed,    \* store: tables whose idx_<table>_* indexes exist
    rows,       \* store: table name -> sequence of stored rows, in id order
    cache,      \* StockDatabaseManager.existing_tables_cache
    info_cache, \* StockDatabaseManager.inspector: names cached as absent
    sqlalchemy, \* the release line of the sqlalchemy package that is installed
    metadata,   \* StockDatabaseManager.metadata: names of the Table objects
    pc,         \* where the program is: idle, loop, bulk, persym, ret
    startDate,  \* process_date_range: start
    current,    \* process_date_range: current
    endDate,    \* process_date_range: end
    invoked,    \* dates passed to process_single_date by this program run
    csv,        \* process_single_date: csv_file, as the frame it cleans to
    df,         \* process_single_date: df after apply_and_encode_patterns
    groups,     \* process_single_date: keys of df.groupby not yet written
    last,       \* what the most recent step did: call, outcome, store operations
    replay,     \* "live", or the file content the archive serves for every day
    settled,    \* days whose file some program run has processed
    faults,     \* store operations that have failed so far
    files,      \* day files the archive has served so far
    procs       \* program runs started so far

vars == << tables, indexed, rows, cache, info_cache, sqlalchemy, metadata, pc,
           startDate, current, endDate, invoked, csv, df, groups, last, replay,
           settled, faults, files, procs >>

(***************************************************************************)
(* Bounds of the model.                                                    *)
(***************************************************************************)
MaxRows == 2        \* rows of a day's frame
MaxFaults == 1      \* store operations that fail over a behaviour
MaxProcs == 2       \* program runs
NumDays == 4        \* calendar days a range can span
MaxFiles == 2       \* day files the archive serves over a behaviour

(***************************************************************************)
(* Dates are proleptic Gregorian ordinals (date.toordinal()).  DayBase is  *)
(* "01012025", the start of the range of the main block, a Wednesday.      *)
(***************************************************************************)
DayBase == 739252
FirstDay == DayBase + 1
Days == FirstDay .. (FirstDay + NumDays - 1)

\* datetime.weekday(): Monday is 0, Sunday is 6.
Weekday(d) == (d + 6) % 7

\* A variant of is_weekend that takes Sunday only for the weekend.
SundayOnly(d) == Weekday(d) >= 6

is_weekend(d) == Weekday(d) >= 5

(***************************************************************************)
(* CandlePatternRecognizer                                                 *)
(***************************************************************************)
pattern_names ==
    << "Hammer", "InvertedHammer", "DragonflyDoji", "PiercingLine",
       "BullishMarubozu", "BullishSpinningTop", "HangingMan", "ShootingStar",
       "GravestoneDoji", "BearishSpinningTop", "Doji", "LongLeggedDoji" >>

patterns(name) ==
    CASE name = "Hammer"             -> "CDLHAMMER"
      [] name = "InvertedHammer"     -> "CDLINVERTEDHAMMER"
      [] name = "DragonflyDoji"      -> "CDLDRAGONFLYDOJI"
      [] name = "PiercingLine"       -> "CDLPIERCING"
      [] name = "BullishMarubozu"    -> "CDLMARUBOZU"
      [] name = "BullishSpinningTop" -> "CDLSPINNINGTOP"
      [] name = "HangingMan"         -> "CDLHANGINGMAN"
      [] name = "ShootingStar"       -> "CDLSHOOTINGSTAR"
      [] name = "GravestoneDoji"     -> "CDLGRAVESTONEDOJI"
      [] name = "BearishSpinningTop" -> "CDLSPINNINGTOP"
      [] name = "Doji"               -> "CDLDOJI"
      [] name = "LongLeggedDoji"     -> "CDLLONGLEGGEDDOJI"

TalibFns == { patterns(pattern_names[i]) : i \in DOMAIN pattern_names }

(***************************************************************************)
(* What a talib detector returns for a candle on which it fires: +-100 by  *)
(* the candle's colour for the two-sided detectors, -100 for the bearish   *)
(* one-sided ones, +100 for the others; 0 where it does not fire.          *)
(***************************************************************************)
TalibOut(fn, fires, open, close) ==
    IF ~fires THEN 0
    ELSE IF fn \in {"CDLMARUBOZU", "CDLSPINNINGTOP"}
         THEN (IF close >= open THEN 100 ELSE -100)
    ELSE IF fn \in {"CDLHANGINGMAN", "CDLSHOOTINGSTAR"} THEN -100
    ELSE 100

\* df[name] = (self.patterns[name](...) != 0).astype(int)
PatternColumn(row, name) == IF row.talib[patterns(name)] # 0 THEN 1 ELSE 0

\* df[self.pattern_names].astype(str).agg(''.join, axis=1): the digits, in
\* catalog order
BitString(row) ==
    [i \in DOMAIN pattern_names |-> PatternColumn(row, pattern_names[i])]

\* A variant of ParseBase2 that reads the first digit as the lowest bit.
RECURSIVE ParseLowestFirst(_)
ParseLowestFirst(s) ==
    IF s = << >> THEN 0
    ELSE s[1] + 2 * ParseLowestFirst(SubSeq(s, 2, Len(s)))

\* The value of the first n digits of s, the first digit the highest.
RECURSIVE ParseDigits(_, _)
ParseDigits(s, n) ==
    IF n = 0 THEN 0
    ELSE 2 * ParseDigits(s, n - 1) + s[n]

\* int(x, 2)
ParseBase2(s) == ParseDigits(s, Len(s))

\* A variant of MatchedFrom that collects the names from the last to the first.
RECURSIVE MatchedBackwards(_, _)
MatchedBackwards(bits, i) ==
    IF i > Len(bits) THEN << >>
    ELSE MatchedBackwards(bits, i + 1)
         \o (IF bits[i] = 1 THEN << pattern_names[i] >> ELSE << >>)

\* [pattern for pattern, val in row.items() if val == 1]
RECURSIVE MatchedFrom(_, _)
MatchedFrom(bits, i) ==
    IF i > Len(bits) THEN << >>
    ELSE (IF bits[i] = 1 THEN << pattern_names[i] >> ELSE << >>)
         \o MatchedFrom(bits, i + 1)

\* The row with its pattern columns, pattern_value and matched_patterns.
EncodeRow(row) ==
    [ Symbol           |-> row.Symbol,
      Date             |-> row.Date,
      Open             |-> row.Open,
      High             |-> row.High,
      Low              |-> row.Low,
      Close            |-> row.Close,
      Volume           |-> row.Volume,
      prev_close       |-> row.prev_close,
      avg_price        |-> row.avg_price,
      cols             |-> BitString(row),
      pattern_value    |-> ParseBase2(BitString(row)),
      matched_patterns |-> MatchedFrom(BitString(row), 1) ]

apply_and_encode_patterns(frame) ==
    [i \in DOMAIN frame |-> EncodeRow(frame[i])]

(***************************************************************************)
(* The day's frame, as clean_bhavcopy hands it to the encoder.  A row      *)
(* carries the talib result of every detector on it.  Volume is the text   *)
(* of the file's TTL_TRD_QNTY field: "-" is a field float() rejects.       *)
(***************************************************************************)
SortedSymbols == << "A", "B" >>
Symbols == { SortedSymbols[i] : i \in DOMAIN SortedSymbols }

Kinds == { "plain", "hammer", "badplain", "badhammer" }

KindFires(kind) == IF kind \in {"hammer", "badhammer"} THEN {"CDLHAMMER"} ELSE {}

Bar(symbol, date, open, high, low, close, volume, fires) ==
    [ Symbol     |-> symbol,
      Date       |-> date,
      Open       |-> open,
      High       |-> high,
      Low        |-> low,
      Close      |-> close,
      Volume     |-> volume,
      prev_close |-> open,
      avg_price  |-> low + 1,
      talib      |-> [fn \in TalibFns |-> TalibOut(fn, fn \in fires, open, close)] ]

KindBar(symbol, date, kind) ==
    LET volume == IF kind \in {"badplain", "badhammer"} THEN "-" ELSE "1000"
    IN  IF kind \in {"hammer", "badhammer"}
        THEN Bar(symbol, date, 20, 21, 15, 21, volume, KindFires(kind))
        ELSE Bar(symbol, date, 10, 12, 9, 11, volume, KindFires(kind))

\* A file content: the (symbol, kind) of each row, in file order.
Contents ==
    UNION { [1..n -> Symbols \X Kinds] : n \in 1..MaxRows }

Frame(date, content) ==
    [i \in DOMAIN content |-> KindBar(content[i][1], date, content[i][2])]

\* apply_and_encode_patterns on each of the frames a day can have.
EncodedFrame ==
    [d \in Days |->
        [c \in Contents |-> apply_and_encode_patterns(Frame(d, c))]]

NoCsv == [kind |-> "none", rows |-> << >>]

(***************************************************************************)
(* StockDatabaseManager.  The operators work on a record m of the store    *)
(* and the manager's fields, and on f, the store operation that raises in  *)
(* this call ("none": no operation raises).  m.ops lists the store         *)
(* operations issued, m.skipped counts the records the INSERT skipped on a *)
(* conflict, m.hit tells that f was reached.                               *)
(***************************************************************************)
CommonTable == "common_stock_data"

\* symbol.lower()
Lower(symbol) ==
    CASE symbol = "A" -> "a"
      [] symbol = "B" -> "b"
      [] symbol = "C" -> "c"
      [] OTHER -> symbol

\* f"stock_{symbol.lower()}"
TableName(symbol) ==
    CASE Lower(symbol) = "a" -> "stock_a"
      [] Lower(symbol) = "b" -> "stock_b"
      [] Lower(symbol) = "c" -> "stock_c"

TableNames == {CommonTable} \cup { TableName(s) : s \in Symbols }

FaultPoints == { "has_table", "create_all", "create_index", "reflect", "insert" }

Issue(m, op, table) == [m EXCEPT !.ops = Append(@, << op, table >>)]

Hit(m) == [m EXCEPT !.hit = TRUE]

Releases == { "1.4", "2.0" }

\* self.inspector.has_table(table_name).  On 2.0 the answer comes from the
\* Inspector's info_cache when the name was asked before, and an answer the
\* store gave is kept there; an answer of True is never asked for again,
\* the name being in existing_tables_cache from then on, so that info_cache
\* holds the names answered False.  A call that raises caches nothing.
has_table(m, table_name, f) ==
    IF m.release = "2.0" /\ table_name \in m.info_cache
    THEN [m |-> m, exc |-> FALSE, ret |-> FALSE]
    ELSE LET m1 == Issue(m, "has_table", table_name)
         IN  IF f = "has_table"
             THEN [m |-> Hit(m1), exc |-> TRUE, ret |-> FALSE]
             ELSE IF table_name \in m1.tables
             THEN [m |-> m1, exc |-> FALSE, ret |-> TRUE]
             ELSE [m   |-> IF m1.release = "2.0"
                           THEN [m1 EXCEPT !.info_cache = @ \cup {table_name}]
                           ELSE m1,
                   exc |-> FALSE, ret |-> FALSE]

check_table_exists(m, table_name, f) ==
    IF table_name \in m.cache
    THEN [m |-> m, exc |-> FALSE, ret |-> TRUE]
    ELSE LET exists == has_table(m, table_name, f)
         IN  IF exists.exc \/ ~exists.ret THEN exists
             ELSE [m   |-> [exists.m EXCEPT !.cache = @ \cup {table_name}],
                   exc |-> FALSE, ret |-> TRUE]

\* The seven CREATE INDEX IF NOT EXISTS statements, sent on engine.connect();
\* a failure is logged only.  The with block ends without a commit: on 1.4
\* each statement was committed as it ran, on 2.0 they are rolled back.
create_indexes(m, table_name, f) ==
    LET m1 == Issue(m, "create_index", table_name)
    IN  IF f = "create_index" \/ table_name \notin m1.tables
        THEN (IF f = "create_index" THEN Hit(m1) ELSE m1)
        ELSE IF m1.release = "2.0" THEN m1
        ELSE [m1 EXCEPT !.indexed = @ \cup {table_name}]

\* metadata.create_all(engine): creates every table of the metadata that the
\* store lacks.
create_all(m) == [m EXCEPT !.tables = @ \cup m.meta]

\* A variant of create_table that caches the name and returns True also when
\* metadata.create_all has raised.
CreateTableAlwaysTrue(m, table_name, f) ==
    LET c == check_table_exists(m, table_name, f)
    IN  IF c.exc \/ c.ret THEN c
        ELSE IF table_name \in c.m.meta
        THEN [m |-> c.m, exc |-> FALSE, ret |-> FALSE]
        ELSE LET m1 == Issue([c.m EXCEPT !.meta = @ \cup {table_name}],
                             "create_all", table_name)
                 m2 == IF f = "create_all" THEN Hit(m1)
                       ELSE create_indexes(create_all(m1), table_name, f)
             IN  [m   |-> [m2 EXCEPT !.cache = @ \cup {table_name}],
                  exc |-> FALSE, ret |-> TRUE]

create_table(m, table_name, f) ==
    LET c == check_table_exists(m, table_name, f)
    IN  IF c.exc \/ c.ret THEN c
        ELSE IF table_name \in c.m.meta
        \* Table(table_name, self.metadata, *columns) on a name the metadata
        \* holds raises InvalidRequestError, which the except clause catches
        THEN [m |-> c.m, exc |-> FALSE, ret |-> FALSE]
        ELSE LET m1 == Issue([c.m EXCEPT !.meta = @ \cup {table_name}],
                             "create_all", table_name)
             IN  IF f = "create_all"
                 THEN [m |-> Hit(m1), exc |-> FALSE, ret |-> FALSE]
                 ELSE LET m2 == create_indexes(create_all(m1), table_name, f)
                      IN  [m   |-> [m2 EXCEPT !.cache = @ \cup {table_name}],
                           exc |-> FALSE, ret |-> TRUE]

\* float(row['Volume'])
FloatOk(text) == text # "-"

ToFloat(text) == IF text = "1000" THEN 1000 ELSE 0

\* str() of a list of strings, as its tokens: "[", then each item between
\* quotes, the items separated by ", ", then "]".
RECURSIVE ReprItems(_)
ReprItems(list) ==
    IF list = << >> THEN << >>
    ELSE << "'", Head(list), "'" >>
         \o (IF Tail(list) = << >> THEN << >>
             ELSE << ", " >> \o ReprItems(Tail(list)))

PyStr(list) == << "[" >> \o ReprItems(list) \o << "]" >>

\* The dictionary of lines 132-144 and 170-182.
Record(symbol, row) ==
    [ symbol           |-> symbol,
      date             |-> row.Date,
      open             |-> row.Open,
      high             |-> row.High,
      low              |-> row.Low,
      close            |-> row.Close,
      volume           |-> ToFloat(row.Volume),
      prev_close       |-> row.prev_close,
      avg_price        |-> row.avg_price,
      pattern_value    |-> row.pattern_value,
      matched_patterns |-> PyStr(row.matched_patterns) ]

HasKey(stored, rec) ==
    \E i \in DOMAIN stored :
        stored[i].symbol = rec.symbol /\ stored[i].date = rec.date

\* The rows of a table after the statement has put the records in, one by
\* one: a record whose key is stored, or came earlier in the statement, is
\* skipped.
RECURSIVE SkipConflicts(_, _)
SkipConflicts(stored, records) ==
    IF records = << >> THEN stored
    ELSE SkipConflicts(
             IF HasKey(stored, Head(records)) THEN stored
             ELSE Append(stored, Head(records)),
             Tail(records))

\* A variant of InsertOnConflictDoNothing for a table without the constraint:
\* every record is stored.
InsertUnconstrained(stored, records) ==
    [ rows |-> stored \o records, skipped |-> 0, ok |-> TRUE ]

\* A variant of InsertOnConflictDoNothing that overwrites on a conflict
\* (ON CONFLICT ... DO UPDATE).
RECURSIVE Overwrite(_, _)
Overwrite(stored, records) ==
    IF records = << >> THEN stored
    ELSE LET rec == Head(records)
             SameKey(i) == stored[i].symbol = rec.symbol
                           /\ stored[i].date = rec.date
         IN  Overwrite(
                 IF HasKey(stored, rec)
                 THEN [i \in DOMAIN stored |->
                          IF SameKey(i) THEN rec ELSE stored[i]]
                 ELSE Append(stored, rec),
                 Tail(records))

InsertOnConflictDoUpdate(stored, records) ==
    [ rows |-> Overwrite(stored, records), skipped |-> 0, ok |-> TRUE ]

\* INSERT ... VALUES (...) ON CONFLICT (symbol, date) DO NOTHING, under the
\* constraint uq_<table>: the rows afterwards, the number of records skipped,
\* and whether the statement succeeded.
InsertOnConflictDoNothing(stored, records) ==
    LET after == SkipConflicts(stored, records)
    IN  [ rows    |-> after,
          skipped |-> Len(stored) + Len(records) - Len(after),
          ok      |-> TRUE ]

\* A variant of ExecuteInsert without the transaction: a statement that fails
\* has stored its first record.
ExecuteInsertNoRollback(m, table_name, records, f) ==
    LET m1 == Issue(m, "insert", table_name)
        x  == InsertOnConflictDoNothing(m1.rows[table_name], records)
    IN  IF f = "insert"
        THEN [m  |-> [Hit(m1) EXCEPT !.rows[table_name] =
                          Append(@, Head(records))],
              ok |-> FALSE]
        ELSE IF table_name \notin m1.tables \/ ~x.ok
        THEN [m |-> m1, ok |-> FALSE]
        ELSE [m  |-> [m1 EXCEPT !.rows[table_name] = x.rows,
                                !.skipped = x.skipped],
              ok |-> TRUE]

\* conn.execute of the INSERT inside engine.begin(): all or nothing.
ExecuteInsert(m, table_name, records, f) ==
    LET m1 == Issue(m, "insert", table_name)
        x  == InsertOnConflictDoNothing(m1.rows[table_name], records)
    IN  IF f = "insert" THEN [m |-> Hit(m1), ok |-> FALSE]
        ELSE IF table_name \notin m1.tables \/ ~x.ok
        THEN [m |-> m1, ok |-> FALSE]
        ELSE [m  |-> [m1 EXCEPT !.rows[table_name] = x.rows,
                                !.skipped = x.skipped],
              ok |-> TRUE]

insert_data(m, symbol, data, f) ==
    LET table_name == TableName(symbol)
        c == create_table(m, table_name, f)
        created == IF c.exc THEN "raised" ELSE IF c.ret THEN "True" ELSE "False"
    IN  IF c.exc
        \* create_table is called outside the try block
        THEN [m |-> c.m, ret |-> "raised", created |-> created,
              failed |-> TRUE, batch |-> 1]
        ELSE IF ~FloatOk(data[1].Volume)
        THEN [m |-> c.m, ret |-> "False", created |-> created,
              failed |-> TRUE, batch |-> 1]
        ELSE LET x == ExecuteInsert(c.m, table_name,
                                    << Record(symbol, data[1]) >>, f)
             IN  [m       |-> x.m,
                  ret     |-> IF x.ok THEN "True" ELSE "False",
                  created |-> created,
                  failed  |-> ~x.ok,
                  batch   |-> 1]

\* df[df[pattern_cols].any(axis=1)]
HasPattern(row) == \E i \in DOMAIN row.cols : row.cols[i] # 0

\* A variant of WithPattern that keeps every row.
AllRows(frame) == frame

WithPattern(frame) == SelectSeq(frame, HasPattern)

\* Table(table_name, self.metadata, autoload_with=self.engine): the Table the
\* metadata holds, or else one reflected from the store.
Autoload(m, table_name, f) ==
    IF table_name \in m.meta THEN [m |-> m, ok |-> TRUE]
    ELSE LET m1 == Issue(m, "reflect", table_name)
         IN  IF f = "reflect" THEN [m |-> Hit(m1), ok |-> FALSE]
             ELSE IF table_name \notin m1.tables THEN [m |-> m1, ok |-> FALSE]
             ELSE [m |-> [m1 EXCEPT !.meta = @ \cup {table_name}], ok |-> TRUE]

bulk_insert_common(m, frame, f) ==
    LET c == create_table(m, CommonTable, f)
        created == IF c.exc THEN "raised" ELSE IF c.ret THEN "True" ELSE "False"
        df_patterns == WithPattern(frame)
        batch == Len(df_patterns)
    IN  IF c.exc
        \* create_table is called outside the try block
        THEN [m |-> c.m, ret |-> "raised", created |-> created,
              failed |-> TRUE, batch |-> batch]
        ELSE IF df_patterns = << >>
        THEN [m |-> c.m, ret |-> "None", created |-> created,
              failed |-> FALSE, batch |-> batch]
        ELSE IF \E i \in DOMAIN df_patterns : ~FloatOk(df_patterns[i].Volume)
        \* the records are built outside the try block
        THEN [m |-> c.m, ret |-> "raised", created |-> created,
              failed |-> TRUE, batch |-> batch]
        ELSE LET records == [i \in DOMAIN df_patterns |->
                                Record(df_patterns[i].Symbol, df_patterns[i])]
                 a == Autoload(c.m, CommonTable, f)
                 x == ExecuteInsert(a.m, CommonTable, records, f)
             IN  IF ~a.ok
                 THEN [m |-> a.m, ret |-> "None", created |-> created,
                       failed |-> TRUE, batch |-> batch]
                 ELSE [m       |-> x.m,
                       ret     |-> "None",
                       created |-> created,
                       failed  |-> ~x.ok,
                       batch   |-> batch]

\* A variant of GroupRows that holds the symbol's rows in reverse frame order.
RECURSIVE Reversed(_)
Reversed(q) == IF q = << >> THEN << >> ELSE Append(Reversed(Tail(q)), Head(q))

GroupRowsReversed(frame, symbol) ==
    LET IsOf(row) == row.Symbol = symbol IN Reversed(SelectSeq(frame, IsOf))

\* df.groupby("Symbol"): one group per symbol, in sorted symbol order; a
\* group holds the symbol's rows in frame order.
GroupRows(frame, symbol) ==
    LET IsOf(row) == row.Symbol = symbol IN SelectSeq(frame, IsOf)

\* The keys of df.groupby("Symbol"), in iteration order.
GroupBy(frame) ==
    LET Present(symbol) == GroupRows(frame, symbol) # << >>
    IN  SelectSeq(SortedSymbols, Present)

(***************************************************************************)
(* The program: process_date_range and process_single_date.                *)
(***************************************************************************)
Live == [on |-> FALSE, content |-> << >>]

Garbled == [kind |-> "garbled", rows |-> << >>]

\* last: the call of the step, what create_table returned in it, what it
\* returned, whether its write failed, the records it was given, the records
\* its INSERT skipped, and the store operations it issued.
Step(call, ret) ==
    [ call |-> call, created |-> "-", ret |-> ret, failed |-> FALSE,
      batch |-> 0, skipped |-> 0, ops |-> << >> ]

NoCall == Step("-", "-")

\* A variant of ExceptClause that lets the exception leave
\* process_single_date and process_date_range.
Reraise == "crashed"

\* The except clause of process_single_date: the error is logged and the
\* call returns.
ExceptClause == "ret"

\* The store and the manager, as the write calls see them.
Manager ==
    [ tables |-> tables, indexed |-> indexed, rows |-> rows, cache |-> cache,
      info_cache |-> info_cache, release |-> sqlalchemy,
      meta |-> metadata, ops |-> << >>, skipped |-> 0, hit |-> FALSE ]

\* What download_csv can return for a day: None, a file pandas cannot parse,
\* or a file, named by its content, that cleans to a frame.
Served(date) ==
    IF replay.on
    THEN { [kind |-> "ok", rows |-> replay.content] }
    ELSE { NoCsv, Garbled }
         \cup { [kind |-> "ok", rows |-> c] : c \in Contents }

\* A program run that an exception has ended can be followed by another.
Stopped == pc \in {"idle", "crashed"}

Init ==
    /\ tables = {}
    /\ indexed = {}
    /\ rows = [t \in TableNames |-> << >>]
    /\ cache = {}
    /\ info_cache = {}
    /\ sqlalchemy \in Releases
    /\ metadata = {}
    /\ pc = "idle"
    /\ startDate = FirstDay
    /\ current = FirstDay
    /\ endDate = FirstDay
    /\ invoked = << >>
    /\ csv = NoCsv
    /\ df = << >>
    /\ groups = << >>
    /\ last = NoCall
    /\ replay = Live
    /\ settled = {}
    /\ faults = 0
    /\ files = 0
    /\ procs = 0

\* The main block: a new StockDatabaseManager, then process_date_range.
StartProcess ==
    /\ Stopped
    /\ procs < MaxProcs
    /\ \E start \in Days, end \in Days :
        /\ startDate' = start
        /\ current' = start
        /\ endDate' = end
    /\ cache' = {}
    /\ info_cache' = {}
    /\ metadata' = {}
    /\ invoked' = << >>
    /\ pc' = "loop"
    /\ procs' = procs + 1
    /\ last' = Step("process_date_range", "-")
    /\ UNCHANGED << tables, indexed, rows, sqlalchemy, csv, df, groups, replay,
                    settled,
                    faults, files >>

\* while current <= end: the loop ends
LoopExit ==
    /\ pc = "loop"
    /\ current > endDate
    /\ pc' = "idle"
    /\ last' = Step("process_date_range", "None")
    /\ UNCHANGED << tables, indexed, rows, cache, info_cache, sqlalchemy,
                    metadata, startDate, current,
                    endDate, invoked, csv, df, groups, replay, settled,
                    faults, files, procs >>

\* process_single_date: if self.is_weekend(date_str): return
SkipWeekend ==
    /\ pc = "loop"
    /\ current <= endDate
    /\ is_weekend(current)
    /\ invoked' = Append(invoked, current)
    /\ pc' = "ret"
    /\ last' = Step("is_weekend", "True")
    /\ UNCHANGED << tables, indexed, rows, cache, info_cache, sqlalchemy,
                    metadata, startDate, current,
                    endDate, csv, df, groups, replay, settled, faults, files,
                    procs >>

\* process_single_date: csv_file = self.download_csv(date_str);
\* if not csv_file: return
\* df = pd.read_csv(csv_file); df = self.clean_bhavcopy(df);
\* df = self.pattern_recognizer.apply_and_encode_patterns(df)
\* An exception of these ends the day in the except clause.
Download ==
    /\ pc = "loop"
    /\ current <= endDate
    /\ ~is_weekend(current)
    /\ invoked' = Append(invoked, current)
    /\ \E c \in Served(current) :
        /\ c.kind = "ok" => files < MaxFiles
        /\ files' = files + (IF c.kind = "ok" THEN 1 ELSE 0)
        /\ IF c.kind = "ok"
           THEN /\ df' = EncodedFrame[current][c.rows]
                /\ pc' = "bulk"
                /\ last' = Step("download_csv", "file")
           ELSE /\ pc' = (IF c.kind = "none" THEN "ret" ELSE ExceptClause)
                /\ last' = Step("download_csv",
                                IF c.kind = "none" THEN "None" ELSE "raised")
                /\ UNCHANGED df
    /\ UNCHANGED csv
    /\ UNCHANGED << tables, indexed, rows, cache, info_cache, sqlalchemy,
                    metadata, startDate, current,
                    endDate, groups, replay, settled, faults, procs >>

\* The effect of a write call on the store and the manager.
Written(call, r) ==
    /\ tables' = r.m.tables
    /\ indexed' = r.m.indexed
    /\ rows' = r.m.rows
    /\ cache' = r.m.cache
    /\ info_cache' = r.m.info_cache
    /\ metadata' = r.m.meta
    /\ faults' = faults + (IF r.m.hit THEN 1 ELSE 0)
    /\ last' = [ call |-> call, created |-> r.created, ret |-> r.ret,
                 failed |-> r.failed, batch |-> r.batch,
                 skipped |-> r.m.skipped, ops |-> r.m.ops ]

\* The day's work is over, by the end of the try block or by an exception:
\* the frame is dropped.
DayOver(raised) ==
    /\ pc' = (IF raised THEN ExceptClause ELSE "ret")
    /\ df' = << >>
    /\ groups' = << >>
    /\ settled' = settled \cup {current}

\* self.db_manager.bulk_insert_common(df); an exception leaves the try block.
BulkInsertCommon ==
    /\ pc = "bulk"
    /\ \E f \in FaultPoints \cup {"none"} :
        \E r \in { bulk_insert_common(Manager, df, f) } :
            /\ f = "none" \/ (faults < MaxFaults /\ r.m.hit)
            /\ Written("bulk_insert_common", r)
            /\ IF r.ret = "raised"
               THEN DayOver(TRUE)
               ELSE /\ groups' = GroupBy(df)
                    /\ pc' = "persym"
                    /\ UNCHANGED << df, settled >>
    /\ UNCHANGED << sqlalchemy, csv, startDate, current, endDate, invoked,
                    replay, files, procs >>

\* for symbol, group in df.groupby("Symbol"):
\*     self.db_manager.insert_data(symbol, group)
\* An exception leaves the loop and the try block.
InsertData ==
    /\ pc = "persym"
    /\ groups # << >>
    /\ \E f \in FaultPoints \cup {"none"} :
        \E r \in { insert_data(Manager, Head(groups),
                               GroupRows(df, Head(groups)), f) } :
            /\ f = "none" \/ (faults < MaxFaults /\ r.m.hit)
            /\ Written("insert_data", r)
            /\ IF r.ret = "raised" \/ Tail(groups) = << >>
               THEN DayOver(r.ret = "raised")
               ELSE /\ groups' = Tail(groups)
                    /\ UNCHANGED << pc, df, settled >>
    /\ UNCHANGED << sqlalchemy, csv, startDate, current, endDate, invoked,
                    replay, files, procs >>

\* A variant of NextDay that advances by two days.
NextDayByTwo ==
    /\ pc = "ret"
    /\ current' = current + 2
    /\ pc' = "loop"
    /\ last' = Step("process_single_date", "None")
    /\ UNCHANGED << tables, indexed, rows, cache, info_cache, sqlalchemy,
                    metadata, startDate, endDate,
                    invoked, csv, df, groups, replay, settled, faults, files,
                    procs >>

\* process_single_date has returned: current += timedelta(days=1)
NextDay ==
    /\ pc = "ret"
    /\ current' = current + 1
    /\ pc' = "loop"
    /\ last' = Step("process_single_date", "None")
    /\ UNCHANGED << tables, indexed, rows, cache, info_cache, sqlalchemy,
                    metadata, startDate, endDate,
                    invoked, csv, df, groups, replay, settled, faults, files,
                    procs >>

Next ==
    \/ StartProcess
    \/ LoopExit
    \/ SkipWeekend
    \/ Download
    \/ BulkInsertCommon
    \/ InsertData
    \/ NextDay

Spec == Init /\ [][Next]_vars

\* The steps of a program run.  The interpreter goes on executing the run:
\* a step that can be taken is taken, every call of a step returning.
RunStep ==
    \/ LoopExit
    \/ SkipWeekend
    \/ Download
    \/ BulkInsertCommon
    \/ InsertData
    \/ NextDay

\* One program run, on an archive that serves one content for every day.
InitRange ==
    /\ tables = {}
    /\ indexed = {}
    /\ rows = [t \in TableNames |-> << >>]
    /\ cache = {}
    /\ info_cache = {}
    /\ sqlalchemy \in Releases
    /\ metadata = {}
    /\ pc = "idle"
    /\ startDate = FirstDay
    /\ current = FirstDay
    /\ endDate = FirstDay
    /\ invoked = << >>
    /\ csv = NoCsv
    /\ df = << >>
    /\ groups = << >>
    /\ last = NoCall
    /\ replay \in { [on |-> TRUE, content |-> c] : c \in Contents }
    /\ settled = {}
    /\ faults = 0
    /\ files = 0
    /\ procs = MaxProcs - 1

SpecRange == InitRange /\ [][Next]_vars /\ WF_vars(RunStep)

(***************************************************************************)
(* The archive serves the same file content for every day it is asked for: *)
(* a later program run over a day gets the input of the earlier one.       *)
(***************************************************************************)
InitRerun ==
    /\ tables = {}
    /\ indexed = {}
    /\ rows = [t \in TableNames |-> << >>]
    /\ cache = {}
    /\ info_cache = {}
    /\ sqlalchemy \in Releases
    /\ metadata = {}
    /\ pc = "idle"
    /\ startDate = FirstDay
    /\ current = FirstDay
    /\ endDate = FirstDay
    /\ invoked = << >>
    /\ csv = NoCsv
    /\ df = << >>
    /\ groups = << >>
    /\ last = NoCall
    /\ replay \in { [on |-> TRUE, content |-> c] : c \in Contents }
    /\ settled = {}
    /\ faults = 0
    /\ files = 0
    /\ procs = 0

SpecRerun == InitRerun /\ [][Next]_vars

(***************************************************************************)
(* The encoder alone, on one-row frames: every combination of detectors    *)
(* firing, on a rising and on a falling candle.                            *)
(***************************************************************************)
EncodeBars ==
    { Bar("A", FirstDay, oc[1], 12, 9, oc[2], "1000", fires) :
        oc \in { << 10, 11 >>, << 11, 10 >> }, fires \in SUBSET TalibFns }

InitEncode ==
    /\ tables = {}
    /\ indexed = {}
    /\ rows = [t \in TableNames |-> << >>]
    /\ cache = {}
    /\ info_cache = {}
    /\ sqlalchemy \in Releases
    /\ metadata = {}
    /\ pc = "encode"
    /\ startDate = FirstDay
    /\ current = FirstDay
    /\ endDate = FirstDay
    /\ invoked = << FirstDay >>
    /\ csv \in { [kind |-> "ok", rows |-> << b >>] : b \in EncodeBars }
    /\ df = << >>
    /\ groups = << >>
    /\ last = NoCall
    /\ replay = Live
    /\ settled = {}
    /\ faults = 0
    /\ files = 1
    /\ procs = 1

\* df = self.pattern_recognizer.apply_and_encode_patterns(df)
Encode ==
    /\ pc = "encode"
    /\ df' = apply_and_encode_patterns(csv.rows)
    /\ pc' = "encoded"
    /\ last' = Step("apply_and_encode_patterns", "df")
    /\ UNCHANGED << tables, indexed, rows, cache, info_cache, sqlalchemy,
                    metadata, startDate, current,
                    endDate, invoked, csv, groups, replay, settled, faults,
                    files, procs >>

NextEncode == Encode

SpecEncode == InitEncode /\ [][NextEncode]_vars

(***************************************************************************)
(* The writes of a day, lines 239-242, taken in any order: the bulk write  *)
(* and the per-symbol writes of the frame run in the order drawn at the    *)
(* start, on a store that an earlier program run may have written to.  As  *)
(* in the try block, a call that raises ends the day.  No store operation  *)
(* fails here.                                                             *)
(***************************************************************************)
BulkCall == "bulk_insert_common"

\* One write call of the day on the store and manager m.
WriteCall(m, frame, call) ==
    IF call = BulkCall
    THEN bulk_insert_common(m, frame, "none")
    ELSE insert_data(m, call, GroupRows(frame, call), "none")

\* The calls of a day, one after the other; the first that raises is the last.
RECURSIVE RunCalls(_, _, _)
RunCalls(m, frame, calls) ==
    IF calls = << >> THEN m
    ELSE LET r == WriteCall(m, frame, Head(calls))
         IN  IF r.ret = "raised" THEN r.m
             ELSE RunCalls(r.m, frame, Tail(calls))

\* The order of lines 239-242: the bulk write, then the symbols in groupby
\* order.
CodeOrder(frame) == << BulkCall >> \o GroupBy(frame)

Orders(frame) ==
    LET calls == { CodeOrder(frame)[i] : i \in DOMAIN CodeOrder(frame) }
    IN  { q \in [1 .. Cardinality(calls) -> calls] :
            \A i, j \in DOMAIN q : q[i] = q[j] => i = j }

FreshManager(store) ==
    [ tables |-> store.tables, indexed |-> store.indexed, rows |-> store.rows,
      cache |-> {}, info_cache |-> {}, release |-> sqlalchemy,
      meta |-> {}, ops |-> << >>, skipped |-> 0, hit |-> FALSE ]

EmptyStore ==
    [ tables |-> {}, indexed |-> {}, rows |-> [t \in TableNames |-> << >>] ]

\* The store before the day: empty, or as an earlier program run left it
\* after the content it was served for the day.
PriorStore(content) ==
    IF content = << >> THEN EmptyStore
    ELSE RunCalls(FreshManager(EmptyStore), EncodedFrame[FirstDay][content],
                  CodeOrder(EncodedFrame[FirstDay][content]))

InitOrder ==
    /\ sqlalchemy \in Releases
    /\ replay \in { [on |-> TRUE, content |-> c] : c \in Contents \cup { << >> } }
    /\ tables = PriorStore(replay.content).tables
    /\ indexed = PriorStore(replay.content).indexed
    /\ rows = PriorStore(replay.content).rows
    /\ cache = {}
    /\ info_cache = {}
    /\ metadata = {}
    /\ pc = "order"
    /\ startDate = FirstDay
    /\ current = FirstDay
    /\ endDate = FirstDay
    /\ invoked = << FirstDay >>
    /\ csv = NoCsv
    /\ df \in { EncodedFrame[FirstDay][c] : c \in Contents }
    /\ groups \in Orders(df)
    /\ last = NoCall
    /\ settled = {}
    /\ faults = 0
    /\ files = 1
    /\ procs = 1

\* The next write call of the order.
WriteInOrder ==
    /\ pc = "order"
    /\ groups # << >>
    /\ \E r \in { WriteCall(Manager, df, Head(groups)) } :
           /\ Written(IF Head(groups) = BulkCall THEN BulkCall ELSE "insert_data", r)
           /\ IF r.ret = "raised" \/ Tail(groups) = << >>
              THEN /\ pc' = "written"
                   /\ groups' = << >>
              ELSE /\ groups' = Tail(groups)
                   /\ UNCHANGED pc
    /\ UNCHANGED << sqlalchemy, csv, df, settled, startDate, current, endDate,
                    invoked,
                    replay, files, procs >>

NextOrder == WriteInOrder

SpecOrder == InitOrder /\ [][NextOrder]_vars

(***************************************************************************)
(* PatternEngine of src/stock_api/pattern_engine.py: detect_patterns on    *)
(* the price arrays of a company, then save_patterns_to_db, against the    *)
(* tables stock_prices and stock_price_patterns.                           *)
(***************************************************************************)
PatternIds == 1 .. 7

\* x & y on two's-complement integers, for y >= 0: x % 2 is the lowest bit of
\* x and x \div 2 its arithmetic shift, also for a negative x.
RECURSIVE BitwiseAnd(_, _)
BitwiseAnd(x, y) ==
    IF y = 0 THEN 0
    ELSE (x % 2) * (y % 2) + 2 * BitwiseAnd(x \div 2, y \div 2)

\* A comparison array element, as numpy casts it for &: True is 1.
AsInt(b) == IF b THEN 1 ELSE 0

\* self.patterns[pattern_id][1](o, h, l, c), at one index of the arrays.
EnginePattern(pattern_id, row) ==
    CASE pattern_id = 1 -> row.talib["CDLHAMMER"]
      [] pattern_id = 2 -> row.talib["CDLINVERTEDHAMMER"]
      [] pattern_id = 3 -> row.talib["CDLHANGINGMAN"]
      [] pattern_id = 4 -> row.talib["CDLSHOOTINGSTAR"]
      [] pattern_id = 5 -> row.talib["CDLDOJI"]
      [] pattern_id = 6 -> BitwiseAnd(row.talib["CDLMARUBOZU"],
                                     AsInt(row.Close > row.Open))
      [] pattern_id = 7 -> BitwiseAnd(row.talib["CDLMARUBOZU"],
                                     AsInt(row.Close < row.Open))

detect_patterns(ohlc_data) ==
    [pattern_id \in PatternIds |->
        [i \in DOMAIN ohlc_data |-> EnginePattern(pattern_id, ohlc_data[i])]]

\* get_db_connection(): the function is a @contextmanager generator, so the
\* call returns the context manager object, whose body has not run; it
\* has neither cursor() nor close().
get_db_connection == [ type |-> "_GeneratorContextManager",
                       attrs |-> { "__enter__", "__exit__" } ]

Abs(x) == IF x < 0 THEN -x ELSE x

\* pattern_data of lines 39-48: a tuple per index of dates and pattern with a
\* non-zero result, in the order of the loops.
RECURSIVE PatternData(_, _, _, _, _)
PatternData(results, company_id, dates, i, pattern_id) ==
    IF i > Len(dates) THEN << >>
    ELSE IF pattern_id > 7 THEN PatternData(results, company_id, dates, i + 1, 1)
    ELSE (IF results[pattern_id][i] # 0
          THEN << << company_id, dates[i], pattern_id,
                     Abs(results[pattern_id][i]) >> >>
          ELSE << >>)
         \o PatternData(results, company_id, dates, i, pattern_id + 1)

\* save_patterns_to_db: conn.cursor() raises AttributeError on the context
\* manager object, and so does conn.close() in the finally clause; the call
\* raises and has not reached the store.
save_patterns_to_db(store, results, company_id, dates) ==
    LET conn == get_db_connection
    IN  IF "cursor" \notin conn.attrs \/ "close" \notin conn.attrs
        THEN [ rows |-> store, ret |-> "raised", batch |-> 0 ]
        ELSE [ rows |-> store, ret |-> "raised",
               batch |-> Len(PatternData(results, company_id, dates, 1, 1)) ]

\* The price arrays of a company: a candle per day, rising or falling, with
\* the detectors that fire on it.
EngineBars(date) ==
    { Bar("A", date, oc[1], 12, 9, oc[2], "1000", fires) :
        oc \in { << 10, 11 >>, << 11, 10 >> },
        fires \in SUBSET { "CDLHAMMER", "CDLDOJI", "CDLMARUBOZU" } }

EngineArrays ==
    UNION { { q \in [1 .. n -> UNION { EngineBars(FirstDay + i - 1) : i \in 1 .. n }] :
                \A i \in 1 .. n : q[i].Date = FirstDay + i - 1 } :
            n \in 1 .. MaxRows }

CompanyId == 1

\* The stock_prices rows of the company, one per day of the arrays.
StockPrices(ohlc_data) ==
    [i \in DOMAIN ohlc_data |->
        [ id |-> i, company_id |-> CompanyId, date |-> ohlc_data[i].Date ]]

Dates(ohlc_data) == [i \in DOMAIN ohlc_data |-> ohlc_data[i].Date]

InitEngine ==
    /\ csv \in { [kind |-> "ohlc", rows |-> q] : q \in EngineArrays }
    /\ tables = { "stock_prices", "stock_price_patterns" }
    /\ indexed = {}
    /\ rows = [ stock_prices |-> StockPrices(csv.rows),
                stock_price_patterns |-> << >> ]
    /\ cache = {}
    /\ info_cache = {}
    /\ sqlalchemy \in Releases
    /\ metadata = {}
    /\ pc = "detect"
    /\ startDate = FirstDay
    /\ current = FirstDay
    /\ endDate = FirstDay
    /\ invoked = << >>
    /\ df = << >>
    /\ groups = << >>
    /\ last = NoCall
    /\ replay = Live
    /\ settled = {}
    /\ faults = 0
    /\ files = 0
    /\ procs = 0

\* patterns = engine.detect_patterns(ohlc_data)
DetectPatterns ==
    /\ pc = "detect"
    /\ df' = detect_patterns(csv.rows)
    /\ pc' = "detected"
    /\ last' = Step("detect_patterns", "results")
    /\ UNCHANGED << tables, indexed, rows, cache, info_cache, sqlalchemy,
                    metadata, startDate, current,
                    endDate, invoked, csv, groups, replay, settled, faults,
                    files, procs >>

\* engine.save_patterns_to_db(patterns, company_id, dates), a first and a
\* second time with the same arguments.
SavePatterns ==
    /\ pc \in {"detected", "saved"}
    /\ \E r \in { save_patterns_to_db(rows, df, CompanyId, Dates(csv.rows)) } :
        /\ rows' = r.rows
        /\ last' = [Step("save_patterns_to_db", r.ret) EXCEPT
                        !.failed = (r.ret = "raised"), !.batch = r.batch]
    /\ pc' = (IF pc = "detected" THEN "saved" ELSE "saved_twice")
    /\ UNCHANGED << tables, indexed, cache, info_cache, sqlalchemy, metadata,
                    startDate, current,
                    endDate, invoked, csv, df, groups, replay, settled, faults,
                    files, procs >>

NextEngine ==
    \/ DetectPatterns
    \/ SavePatterns

SpecEngine == InitEngine /\ [][NextEngine]_vars

(***************************************************************************)
(* Properties                                                              *)
(***************************************************************************)
IsPrefix(a, b) ==
    /\ Len(a) <= Len(b)
    /\ \A i \in DOMAIN a : a[i] = b[i]

InWriteCall == pc \in {"bulk", "persym"}

IsWriteCall(l) == l.call \in {"insert_data", "bulk_insert_common"}

Issued(l, op) == \E i \in DOMAIN l.ops : l.ops[i][1] = op

\* The record insert_data is about to be called with.
FirstRecord == Record(Head(groups), GroupRows(df, Head(groups))[1])

\* The rows bulk_insert_common is about to keep, and their records.
Batch == WithPattern(df)

BatchRecords == [i \in DOMAIN Batch |-> Record(Batch[i].Symbol, Batch[i])]

BatchConvertible == \A i \in DOMAIN Batch : FloatOk(Batch[i].Volume)

RECURSIVE Pow2(_)
Pow2(k) == IF k = 0 THEN 1 ELSE 2 * Pow2(k - 1)

Bit(n, k) == (n \div Pow2(k)) % 2

PopCount(n) ==
    Cardinality({ k \in 0 .. (Len(pattern_names) - 1) : Bit(n, k) = 1 })

CatalogIndex(name) ==
    CHOOSE i \in DOMAIN pattern_names : pattern_names[i] = name

\* The catalog entries whose detector is non-zero on a row of the input frame.
Fired(row) ==
    { i \in DOMAIN pattern_names : row.talib[patterns(pattern_names[i])] # 0 }

\* C1: in every reachable state, no destination table holds two rows with
\* the same (symbol, date).
C1_UniqueSymbolDate ==
    \A t \in TableNames :
        \A i \in DOMAIN rows[t], j \in DOMAIN rows[t] :
            (rows[t][i].symbol = rows[t][j].symbol
             /\ rows[t][i].date = rows[t][j].date) => i = j

\* A table of two rows, after an INSERT that skipped a record on a conflict.
C1_Witness ==
    /\ IsWriteCall(last)
    /\ last.skipped > 0
    /\ \E t \in TableNames : Len(rows[t]) >= 2

\* C2: when the archive serves the same content again and no store operation
\* has failed, processing a day that an earlier program run has processed
\* leaves the row count of every table as it was, and no exception leaves
\* process_single_date.
C2_RerunKeepsRowCounts ==
    [][ (InWriteCall /\ current \in settled /\ faults' = 0)
        => /\ \A t \in TableNames : Len(rows'[t]) = Len(rows[t])
           /\ pc' # "crashed" ]_vars

\* The second run of a day has reached a per-symbol INSERT, whose record was
\* skipped because the first run had stored the key.
C2_Witness ==
    /\ replay.on
    /\ faults = 0
    /\ files = 2
    /\ last.call = "insert_data"
    /\ last.skipped = 1
    /\ last.ret = "True"

\* C3: no step changes or removes a stored row (the rows of every table stay
\* a prefix of what the table holds afterwards); and a write call whose
\* records' keys are all stored already, and in which no store operation
\* fails, succeeds and leaves every table's rows as they were.
C3_FirstWriterWins ==
    [][ /\ \A t \in TableNames : IsPrefix(rows[t], rows'[t])
        /\ ( /\ pc = "persym"
             /\ FloatOk(GroupRows(df, Head(groups))[1].Volume)
             /\ HasKey(rows[TableName(Head(groups))], FirstRecord)
             /\ faults' = faults )
           => (~last'.failed /\ rows' = rows)
        /\ ( /\ pc = "bulk"
             /\ Batch # << >>
             /\ BatchConvertible
             /\ \A i \in DOMAIN Batch : HasKey(rows[CommonTable], BatchRecords[i])
             /\ faults' = faults )
           => (~last'.failed /\ rows' = rows) ]_vars

\* insert_data has just returned True for symbol A, whose stored row of the
\* day differs from the row it was given.
C3_Witness ==
    /\ pc = "persym"
    /\ groups = << "B" >>
    /\ last.call = "insert_data"
    /\ last.skipped = 1
    /\ last.ret = "True"
    /\ \E i \in DOMAIN rows[TableName("A")] :
        /\ rows[TableName("A")][i].symbol = "A"
        /\ rows[TableName("A")][i].date = current
        /\ rows[TableName("A")][i] # Record("A", GroupRows(df, "A")[1])

\* C4: for every encoded row and every catalog entry i (1-based), the bit of
\* pattern_value of weight 2^(12-i) is 1 exactly when the detector of entry i
\* is non-zero on the row.
C4_BitmaskMatchesDetectors ==
    pc = "encoded" =>
        \A r \in DOMAIN df :
            \A i \in DOMAIN pattern_names :
                (Bit(df[r].pattern_value, Len(pattern_names) - i) = 1)
                    <=> (i \in Fired(csv.rows[r]))

\* A row on which exactly Hammer (the top bit) and LongLeggedDoji (the
\* lowest bit) fire.
C4_Witness ==
    /\ pc = "encoded"
    /\ Fired(csv.rows[1]) = {1, 12}
    /\ df[1].pattern_value = 2049

\* C5: matched_patterns of an encoded row lists the catalog names whose
\* detector fired, each once and in catalog order; it is empty exactly when
\* pattern_value is 0, and as long as pattern_value has bits set.
C5_MatchedPatternsInCatalogOrder ==
    pc = "encoded" =>
        \A r \in DOMAIN df :
            LET mp == df[r].matched_patterns
                fired == Fired(csv.rows[r])
            IN  /\ Len(mp) = Cardinality(fired)
                /\ \A k \in DOMAIN mp : \E i \in fired : mp[k] = pattern_names[i]
                /\ \A k \in DOMAIN mp, l \in DOMAIN mp :
                       k < l => CatalogIndex(mp[k]) < CatalogIndex(mp[l])
                /\ (mp = << >>) <=> (df[r].pattern_value = 0)
                /\ Len(mp) = PopCount(df[r].pattern_value)

\* A row with three matched patterns, and a row with none.
C5_Witness ==
    /\ pc = "encoded"
    /\ df[1].matched_patterns = << "Hammer", "BullishSpinningTop", "BearishSpinningTop" >>

\* C6: a bulk_insert_common call on a frame without a row with a pattern
\* issues no store operation and neither raises nor fails.
C6_EmptyBatchNoStoreAccess ==
    (last.call = "bulk_insert_common" /\ last.batch = 0)
        => (last.ops = << >> /\ last.ret # "raised" /\ ~last.failed)

\* C7: a write call in which create_table returned False issues no INSERT,
\* and insert_data then returns False (bulk_insert_common returns None on
\* every path, so for it only the INSERT is stated).
C7_NoInsertAfterFailedCreate ==
    (IsWriteCall(last) /\ last.created = "False")
        => /\ ~Issued(last, "insert")
           /\ last.call = "insert_data" => last.ret = "False"

\* C8: after a per-symbol write that failed, the writes of the symbols that
\* remain are still to be done.
C8_OtherSymbolsStillWritten ==
    [][ (pc = "persym" /\ Len(groups) > 1 /\ last'.failed)
        => (pc' = "persym" /\ groups' = Tail(groups)) ]_vars

\* C9: a write call returns True or False, True exactly when it did not
\* fail, and does not raise.
C9_WriteCallsReturnBoolean ==
    IsWriteCall(last)
        => /\ last.ret \in {"True", "False"}
           /\ (last.ret = "True") <=> ~last.failed

\* C10, as claimed: a write call that fails leaves the rows and the tables of
\* the store as they were; one that succeeds leaves every record's key
\* stored.
C10_FailedCallLeavesStore ==
    [][ /\ (InWriteCall /\ last'.failed) => (rows' = rows /\ tables' = tables)
        /\ (pc = "bulk" /\ ~last'.failed)
           => \A i \in DOMAIN Batch : HasKey(rows'[CommonTable], BatchRecords[i])
        /\ (pc = "persym" /\ ~last'.failed)
           => HasKey(rows'[TableName(Head(groups))], FirstRecord) ]_vars

\* C10, amended: a write call that fails leaves the rows of every table as
\* they were (a table it created stays); one that succeeds leaves every
\* record's key stored.
C10_FailedCallLeavesRows ==
    [][ /\ (InWriteCall /\ last'.failed) => rows' = rows
        /\ (pc = "bulk" /\ ~last'.failed)
           => \A i \in DOMAIN Batch : HasKey(rows'[CommonTable], BatchRecords[i])
        /\ (pc = "persym" /\ ~last'.failed)
           => HasKey(rows'[TableName(Head(groups))], FirstRecord) ]_vars

\* A bulk insert of two records into the existing shared table has failed in
\* its INSERT.
C10_Witness ==
    /\ last.call = "bulk_insert_common"
    /\ last.failed
    /\ last.batch = 2
    /\ last.created = "True"
    /\ Issued(last, "insert")
    /\ Len(rows[CommonTable]) >= 1

\* C11: the step process_single_date takes on a Saturday or a Sunday of the
\* range is the weekend return: download_csv is not called, no file is
\* served, no store operation is issued, and the store and the manager are
\* left as they were.
C11_WeekendNoFetchNoWrite ==
    [][ (pc = "loop" /\ current <= endDate /\ Weekday(current) \in {5, 6})
        => /\ last'.call = "is_weekend"
           /\ last'.ops = << >>
           /\ files' = files
           /\ pc' = "ret"
           /\ UNCHANGED << tables, indexed, rows, cache, info_cache, metadata,
                          df >> ]_vars

\* The Sunday of a range from Friday to Sunday has been skipped, after the
\* Friday's rows were written.
C11_Witness ==
    /\ last.call = "is_weekend"
    /\ Weekday(current) = 6
    /\ Len(invoked) = 3
    /\ rows[CommonTable] # << >>

\* The days from start to end, in ascending order.
RangeDays(start, end) ==
    [i \in 1 .. (IF end >= start THEN end - start + 1 ELSE 0) |-> start + i - 1]

\* C12: no step lets an exception leave process_single_date, whatever failed
\* in the day (no file, a file that does not parse, a write that raised or
\* failed); a day that ends is followed by the next day of the range; and
\* when process_date_range returns, process_single_date has been called for
\* every day of the range.
C12_FailedDayDoesNotStopRange ==
    [][ /\ pc' # "crashed"
        /\ (last'.ret = "raised" /\ last'.call # "process_date_range")
               => pc' = "ret"
        /\ pc = "ret" => (pc' = "loop" /\ current' = current + 1)
        /\ (pc = "loop" /\ pc' = "idle")
               => invoked = RangeDays(startDate, endDate) ]_vars

\* A program run over Thursday to Saturday has returned: every write of the
\* Thursday failed (the day was processed and no table holds a row of it),
\* and rows of the Friday are stored.
C12_Witness ==
    /\ pc = "idle"
    /\ procs = 1
    /\ startDate = FirstDay
    /\ endDate = FirstDay + 2
    /\ FirstDay \in settled
    /\ \A t \in TableNames : \A i \in DOMAIN rows[t] : rows[t][i].date # FirstDay
    /\ \E t \in TableNames : \E i \in DOMAIN rows[t] : rows[t][i].date = FirstDay + 1

\* C13: every row stored in common_stock_data has a pattern: its
\* pattern_value is not 0 and its matched_patterns is not the text of the
\* empty list.
C13_SharedTableOnlyPatternRows ==
    \A i \in DOMAIN rows[CommonTable] :
        /\ rows[CommonTable][i].pattern_value # 0
        /\ rows[CommonTable][i].matched_patterns # PyStr(<< >>)

\* A day whose file held a row with a pattern and a row of symbol B without
\* one: the first is in the shared table, the second in stock_b only.
C13_Witness ==
    /\ rows[CommonTable] # << >>
    /\ \E i \in DOMAIN rows[TableName("B")] :
        /\ rows[TableName("B")][i].pattern_value = 0
        /\ rows[TableName("B")][i].matched_patterns = << "[", "]" >>
        /\ \E j \in DOMAIN rows[CommonTable] :
               rows[CommonTable][j].date = rows[TableName("B")][i].date
        /\ \A j \in DOMAIN rows[CommonTable] :
               rows[CommonTable][j].date = rows[TableName("B")][i].date
                   => rows[CommonTable][j].symbol # "B"

\* The first row of a frame that is of the symbol.
FirstOf(frame, symbol) ==
    frame[CHOOSE i \in DOMAIN frame :
              /\ frame[i].Symbol = symbol
              /\ \A j \in 1 .. (i - 1) : frame[j].Symbol # symbol]

\* C14: every symbol of the day's frame gets its insert_data call, in turn,
\* unless a call raises; an insert_data call that succeeds leaves exactly one
\* row of the (symbol, date) in stock_<symbol>, with a pattern or without;
\* and when the call stores the row, it is the first row of the symbol in the
\* frame.
C14_OneRowPerSymbolFirstWins ==
    [][ /\ (pc = "bulk" /\ pc' = "persym")
           => { groups'[i] : i \in DOMAIN groups' }
                  = { df[i].Symbol : i \in DOMAIN df }
        /\ (pc = "persym" /\ last'.ret # "raised" /\ Tail(groups) # << >>)
           => (pc' = "persym" /\ groups' = Tail(groups))
        /\ (pc = "persym" /\ ~last'.failed)
           => LET symbol == Head(groups)
                  t == TableName(symbol)
                  first == FirstOf(df, symbol)
              IN  /\ Cardinality({ i \in DOMAIN rows'[t] :
                                     /\ rows'[t][i].symbol = symbol
                                     /\ rows'[t][i].date = first.Date }) = 1
                  /\ ~HasKey(rows[t], Record(symbol, first))
                     => rows'[t] = Append(rows[t], Record(symbol, first)) ]_vars

\* The only file served held two rows of symbol A, the first without a
\* pattern and the second with one: stock_a holds the first (and no other
\* row), the shared table the second.
C14_Witness ==
    /\ files = 1
    /\ last.call = "insert_data"
    /\ last.ret = "True"
    /\ Len(rows[TableName("A")]) = 1
    /\ rows[TableName("A")][1].pattern_value = 0
    /\ \E j \in DOMAIN rows[CommonTable] :
        /\ rows[CommonTable][j].symbol = "A"
        /\ rows[CommonTable][j].date = rows[TableName("A")][1].date

\* C15: when the writes of a day have run, in whatever order, every table
\* holds the rows that the order of the code leaves from the same frame on
\* the same store.
C15_WriteOrderDoesNotMatter ==
    pc = "written" =>
        rows = RunCalls(FreshManager(PriorStore(replay.content)), df,
                        CodeOrder(df)).rows

\* C16: the dates passed to process_single_date by a program run are, at
\* every moment, the first days of the range in ascending order, each once;
\* a date is passed only when the work of the day before is over; when
\* process_date_range returns they are all the days from start to end (none
\* when start > end); and a program run that has started returns.
C16_EachDayOnceInOrder ==
    /\ [](IsPrefix(invoked, RangeDays(startDate, endDate)))
    /\ [][ /\ (invoked' # invoked /\ pc # "idle")
               => (pc = "loop" /\ df = << >> /\ groups = << >>
                   /\ invoked' = Append(invoked, current))
           /\ (pc = "loop" /\ pc' = "idle")
               => invoked = RangeDays(startDate, endDate) ]_vars
    /\ (pc = "loop") ~> (pc = "idle")

\* process_date_range has returned from the range Thursday to Sunday.
C16_Witness ==
    /\ pc = "idle"
    /\ last.call = "process_date_range"
    /\ last.ret = "None"
    /\ invoked = << FirstDay, FirstDay + 1, FirstDay + 2, FirstDay + 3 >>
    /\ rows[CommonTable] # << >>

\* The table a write call is about to ensure.
CalledTable == IF pc = "bulk" THEN CommonTable ELSE TableName(Head(groups))

\* C17: every name in existing_tables_cache is a table of the store; a write
\* call in which create_table returned True leaves the table in the store;
\* and a create_table call on a table that exists issues no CREATE TABLE and
\* no CREATE INDEX and leaves the tables and the indexes of the store as they
\* were.  When the Inspector asks the store about such a table, the call
\* returns True unless has_table raises.
C17_RegistrySoundAndIdempotent ==
    /\ cache \subseteq tables
    /\ [][ /\ cache' \subseteq tables'
           /\ (InWriteCall /\ last'.created = "True")
               => CalledTable \in tables'
           /\ (InWriteCall /\ CalledTable \in tables)
               => /\ ~Issued(last', "create_all")
                  /\ ~Issued(last', "create_index")
                  /\ tables' = tables
                  /\ indexed' = indexed
                  /\ CalledTable \notin info_cache
                         => last'.created \in {"True", "raised"}
                  /\ last'.created = "raised"
                         => last'.ops = << << "has_table", CalledTable >> >> ]_vars

\* The second program run writes to stock_a, which the first created and
\* which is not in the new manager's cache: has_table is asked, nothing is
\* created, and the name is cached.
C17_Witness ==
    /\ procs = 2
    /\ last.call = "insert_data"
    /\ last.created = "True"
    /\ Issued(last, "has_table")
    /\ ~Issued(last, "create_all")
    /\ TableName("A") \in cache
    /\ last.ops[1] = << "has_table", TableName("A") >>

\* C18: on every encoded row, BullishSpinningTop is set only if talib's
\* spinning-top detector fires and close > open, BearishSpinningTop only if
\* it fires and close < open, BullishMarubozu only if talib's Marubozu
\* detector fires and close > open; the two spinning-top bits are never both
\* set.
C18_BullishBearishByCloseVsOpen ==
    pc = "encoded" =>
        \A r \in DOMAIN df :
            LET row == csv.rows[r]
                Set(name) == df[r].cols[CatalogIndex(name)] = 1
            IN  /\ Set("BullishSpinningTop")
                   => (row.talib["CDLSPINNINGTOP"] # 0 /\ row.Close > row.Open)
                /\ Set("BearishSpinningTop")
                   => (row.talib["CDLSPINNINGTOP"] # 0 /\ row.Close < row.Open)
                /\ Set("BullishMarubozu")
                   => (row.talib["CDLMARUBOZU"] # 0 /\ row.Close > row.Open)
                /\ ~(Set("BullishSpinningTop") /\ Set("BearishSpinningTop"))

\* C19: in the results of detect_patterns, pattern 6 is non-zero at an index
\* exactly when talib's Marubozu value there is non-zero and close > open,
\* and pattern 7 exactly when it is non-zero and close < open.
C19_MarubozuSplitByCloseVsOpen ==
    pc # "detect" =>
        \A i \in DOMAIN csv.rows :
            LET row == csv.rows[i]
                raw == row.talib["CDLMARUBOZU"]
            IN  /\ (df[6][i] # 0) <=> (raw # 0 /\ row.Close > row.Open)
                /\ (df[7][i] # 0) <=> (raw # 0 /\ row.Close < row.Open)

\* C20: after save_patterns_to_db, once or twice, stock_price_patterns holds
\* exactly one row (stock_price_id, date, pattern_id, confidence) for every
\* index and pattern with a non-zero result, with the id of the stock_prices
\* row of (company_id, date) and confidence the absolute value of the
\* result, and no other row; and the call has not raised.
C20_OneRowPerDetectedPattern ==
    pc \in {"saved", "saved_twice"} =>
        LET stored == rows["stock_price_patterns"]
            Expected(i, pattern_id) ==
                [ stock_price_id |-> rows["stock_prices"][i].id,
                  date           |-> csv.rows[i].Date,
                  pattern_id     |-> pattern_id,
                  confidence     |-> Abs(df[pattern_id][i]) ]
            Hits == { << i, p >> \in (DOMAIN csv.rows) \X PatternIds : df[p][i] # 0 }
        IN  /\ last.ret # "raised"
            /\ { stored[k] : k \in DOMAIN stored }
                   = { Expected(h[1], h[2]) : h \in Hits }
            /\ Len(stored) = Cardinality(Hits)

====
